---- MODULE Spec2Model ----
(***************************************************************************)
(* Model of the locking-center Go client (package mutex, mutex.go):        *)
(* the request encoder preparePackage, the acknowledgment decoder result,  *)
(* the per-attempt closure of Lock / Unlock / ResetByKey / ResetBySource,  *)
(* their retry loops, and Wait.                                            *)
(*                                                                         *)
(* Bytes are the integers 0..255.  A Go string is the sequence of its      *)
(* bytes.  A *string is a record [present, val]; nil is Nil.               *)
(***************************************************************************)
EXTENDS Integers, Sequences, FiniteSets, TLC

VARIABLES
    lc,                   \* the lockingCenter struct: [address]
    queueRetryDuration,   \* package variable, milliseconds
    call,                 \* call[c]: the goroutine running one API call
    net,                  \* net[id]: the TCP connections, as the server sees them
    srv,                  \* the remote server's behaviour (environment)
    enc,                  \* harness applying preparePackage to drawn inputs
    ctor                  \* the run of the constructor NewLockingCenter

vars == <<lc, queueRetryDuration, call, net, srv, enc, ctor>>

----------------------------------------------------------------------------
(* Program constants *)

maLock == 1
maUnlock == 2
maResetByKey == 3
maResetBySource == 4

Actions == {maLock, maUnlock, maResetByKey, maResetBySource}

\* the largest key length preparePackage accepts
MaxKeyLen == 128

\* time.Millisecond * 500
DefaultRetryMs == 500

\* the byte "+"
Plus == 43

----------------------------------------------------------------------------
(* Bounds of the model *)

\* number of TCP connections that can be open at once (descriptor table)
NumConns == 3

\* attempts and sleeps of a call are counted up to this value, then saturate
MaxCount == 1

\* the scripted server closes the first N connections, N in 0..MaxN
MaxN == 2

\* the goroutines calling the client concurrently
Calls == {1, 2}
ConnIds == 1..NumConns

----------------------------------------------------------------------------
(* Input domains *)

Fill(b, n) == [i \in 1..n |-> b]

Nil == [present |-> FALSE, val |-> <<>>]
Ptr(s) == [present |-> TRUE, val |-> s]

KeyBytes == {97, 98}
SrcBytes == {115}

\* key lengths around both validation bounds
KeyLens == {0, 1, 2, MaxKeyLen - 1, MaxKeyLen, MaxKeyLen + 1}
\* source lengths around the int8 and the byte range
SrcLens == {0, 1, 127, 128, 255, 256}

CodecKeys == {Fill(b, n) : b \in KeyBytes, n \in KeyLens}
CodecSources == {Nil} \cup {Ptr(Fill(b, n)) : b \in SrcBytes, n \in SrcLens}

\* keys and sources of the calls of the engine: empty, "a", "b", too long
EngineKeys == {<<>>, <<97>>, <<98>>, Fill(97, MaxKeyLen + 1)}
EngineSources == {Nil, Ptr(<<115>>)}
\* a single caller also uses the longest valid key and the empty source
SoloKeys == EngineKeys \cup {Fill(98, MaxKeyLen)}
SoloSources == EngineSources \cup {Ptr(<<>>)}

\* bytes the server may answer with: "+", "-", NUL
RespBytes == {Plus, 45, 0}
\* every value of a byte
AllBytes == 0..255

----------------------------------------------------------------------------
(* The wire codec *)

\* Go's int8(n) of a non-negative int: the low 8 bits, two's complement
Int8(n) == ((n + 128) % 256) - 128

\* binary.Write of a one-byte value: its 8 bits as a byte
ByteOf(v) == v % 256

\* faulty variant of KeyRejected: the upper bound of the key length is not checked
KeyRejectedNoMax(action, key) == action # maResetBySource /\ Len(key) = 0

\* faulty variant of KeyRejected: the empty key is rejected for every action
KeyRejectedUniform(action, key) == Len(key) = 0 \/ Len(key) > MaxKeyLen

\* the validation at the head of preparePackage
KeyRejected(action, key) ==
    (action # maResetBySource /\ Len(key) = 0) \/ Len(key) > MaxKeyLen

HasKeyField(action) == action \in {maLock, maUnlock, maResetByKey}
HasSourceField(action) == action \in {maLock, maResetBySource}

KeyField(action, key) ==
    IF HasKeyField(action)
    THEN LET keySize == Int8(Len(key)) IN <<ByteOf(keySize)>> \o key
    ELSE <<>>

\* faulty variant of SourceField: a nil source writes no length byte
SourceFieldNilOmitted(action, sourceAddr) ==
    IF HasSourceField(action) /\ sourceAddr.present
    THEN <<ByteOf(Int8(Len(sourceAddr.val)))>> \o sourceAddr.val
    ELSE <<>>

\* faulty variant of SourceField: only as many source bytes as the length
\* byte announces are appended
SourceFieldTruncated(action, sourceAddr) ==
    IF HasSourceField(action)
    THEN LET n == IF sourceAddr.present
                  THEN ByteOf(Int8(Len(sourceAddr.val))) ELSE 0
         IN  <<n>> \o (IF sourceAddr.present
                        THEN SubSeq(sourceAddr.val, 1, n) ELSE <<>>)
    ELSE <<>>

SourceField(action, sourceAddr) ==
    IF HasSourceField(action)
    THEN LET sourceAddrSize ==
                 IF sourceAddr.present THEN Int8(Len(sourceAddr.val)) ELSE Int8(0)
         IN  <<ByteOf(sourceAddrSize)>>
                 \o (IF sourceAddr.present THEN sourceAddr.val ELSE <<>>)
    ELSE <<>>

\* faulty variant of preparePackage: the frame layout of the earlier protocol
\* revision, key field first and action code last
preparePackageActionLast(action, key, sourceAddr) ==
    IF KeyRejected(action, key)
    THEN [err |-> TRUE, bytes |-> <<>>]
    ELSE [err |-> FALSE,
          bytes |-> KeyField(action, key) \o SourceField(action, sourceAddr)
                        \o <<ByteOf(action)>>]

\* preparePackage returns (bytes, error): [err, bytes], bytes nil on error
preparePackage(action, key, sourceAddr) ==
    IF KeyRejected(action, key)
    THEN [err |-> TRUE, bytes |-> <<>>]
    ELSE [err |-> FALSE,
          bytes |-> <<ByteOf(action)>> \o KeyField(action, key)
                        \o SourceField(action, sourceAddr)]

\* faulty variant of result: any byte read counts as success
resultAnyByte(readOk, r) == readOk

\* faulty variant of result: only the byte "-" counts as a refusal
resultNotMinus(readOk, r) == readOk /\ r # 45

\* result: readOk is whether io.ReadAtLeast delivered the one byte r
result(readOk, r) == IF ~readOk THEN FALSE ELSE r = Plus

----------------------------------------------------------------------------
(* State *)

NoAttempt == [opened |-> FALSE, encoded |-> FALSE, written |-> FALSE,
              readOk |-> FALSE, byte |-> 0]

IdleCall == [op |-> "none", key |-> <<>>, src |-> Nil, act |-> 0,
             pc |-> "idle", conn |-> 0, payload |-> <<>>, ret |-> FALSE,
             outcome |-> "none", att |-> NoAttempt,
             attempts |-> 0, sleeps |-> 0, waited |-> 0,
             lockOk |-> FALSE, unlocks |-> 0,
             wrote |-> 0, acked |-> 0, delivered |-> 0, frames |-> {}]

ClosedConn == [open |-> FALSE, owner |-> 0, recv |-> <<>>, writes |-> 0,
               reads |-> 0]

FreeServer == [good |-> FALSE, scripted |-> FALSE, n |-> 0, left |-> 0,
               resp |-> RespBytes]

\* the constructor: not called yet, and returned with the client
CtorNew == [pc |-> "new", client |-> FALSE, err |-> FALSE, why |-> "none",
            conn |-> 0, dials |-> 0, closes |-> 0]

CtorReturned == [CtorNew EXCEPT !.pc = "returned", !.client = TRUE,
                                !.dials = 1, !.closes = 1]

\* the struct before NewLockingCenter has built it
NoClient == [address |-> ""]

EncIdle == [action |-> 0, key |-> <<>>, src |-> Nil, done |-> FALSE,
            err |-> FALSE, bytes |-> <<>>]

InitClient ==
    /\ lc = [address |-> "host:port"]
    /\ queueRetryDuration = DefaultRetryMs
    /\ call = [c \in Calls |-> IdleCall]
    /\ net = [id \in ConnIds |-> ClosedConn]
    /\ ctor = CtorReturned

Init ==
    /\ InitClient
    /\ srv = FreeServer
    /\ enc = EncIdle

----------------------------------------------------------------------------
(* The server and the network, as far as one attempt can observe them *)

\* may the attempt in progress meet a transient failure?
MayFail == IF srv.scripted THEN srv.left > 0 ELSE ~srv.good

\* may the server answer "+" to the attempt in progress?
MayAck == IF srv.scripted THEN srv.left = 0 ELSE TRUE

\* the scripted server has closed one more connection
Consumed == IF srv.scripted THEN [srv EXCEPT !.left = @ - 1] ELSE srv

----------------------------------------------------------------------------
(* The client engine *)

\* the counters of a call: exact while the server follows its script (which
\* bounds them), saturating at MaxCount otherwise
Bump(n) == IF srv.scripted \/ n < MaxCount THEN n + 1 ELSE n

\* the history of a call (frames written, delivered, acknowledged): kept
\* while the server follows its script, which bounds it
Count(n) == IF srv.scripted THEN n + 1 ELSE n

\* the time slept so far, counted as long as the sleeps are
Slept(ms, n) == IF Bump(n) > n THEN ms + queueRetryDuration ELSE ms

\* the caller enters one of the API functions
Begin(c, o, k, s, a) ==
    /\ ctor.pc = "returned" /\ ctor.client
    /\ call[c].pc = "idle"
    /\ call' = [call EXCEPT ![c] =
                   [IdleCall EXCEPT !.op = o, !.key = k, !.src = s, !.act = a,
                                    !.pc = "dial"]]
    /\ UNCHANGED <<lc, queueRetryDuration, net, srv, enc, ctor>>

Lock(c, key, sourceAddr) == Begin(c, "Lock", key, sourceAddr, maLock)

Unlock(c, key) == Begin(c, "Unlock", key, Nil, maUnlock)

ResetByKey(c, key) == Begin(c, "ResetByKey", key, Nil, maResetByKey)

ResetBySource(c, sourceAddr) ==
    Begin(c, "ResetBySource", <<>>, sourceAddr, maResetBySource)

\* Wait starts with l.Lock(key, nil); the deferred Unlock follows in WaitNext
Wait(c, key) == Begin(c, "Wait", key, Nil, maLock)

\* net.DialTCP hands out a new connection: the lowest free descriptor
FreshConn ==
    CHOOSE id \in ConnIds :
        /\ ~net[id].open
        /\ \A j \in ConnIds : j < id => net[j].open

\* faulty variant of ConnOf: one connection kept in the client and shared by its calls
ConnOfShared(c) ==
    CHOOSE id \in ConnIds :
        /\ net[id].open
        /\ \A j \in ConnIds : j < id => ~net[j].open

\* the connection conn.Write and the read of the closure's attempt go to
ConnOf(c) == call[c].conn

\* faulty variant of ReturnFromAttempt: the error return of l.query leaves the
\* closure before its Close is deferred
ReturnFromAttemptNoClose(cl, ok, why) ==
    IF why = "encfail"
    THEN [cl EXCEPT !.pc = "sleep", !.ret = ok, !.outcome = why, !.conn = 0]
    ELSE [cl EXCEPT !.pc = "close", !.ret = ok, !.outcome = why]

\* the closure returns ok; its deferred conn.Close() is still to run
ReturnFromAttempt(cl, ok, why) ==
    [cl EXCEPT !.pc = "close", !.ret = ok, !.outcome = why]

\* faulty variants of LoopNext: a loop that gives up after one attempt, and a loop
\* with its condition inverted
LoopNextGiveUp(ok) == "return"

LoopNextInverted(ok) == IF ok THEN "sleep" ELSE "return"

\* for !query() { time.Sleep(queueRetryDuration) }
LoopNext(ok) == IF ok THEN "return" ELSE "sleep"

\* faulty variant of WaitNext: Wait returns without its deferred Unlock
WaitNextNoUnlock(cl) == [cl EXCEPT !.pc = "done"]

\* what follows the return of the retry loop: Wait's deferred Unlock, or the
\* return to the caller
WaitNext(cl) ==
    IF cl.op = "Wait" /\ cl.act = maLock
    THEN [cl EXCEPT !.act = maUnlock, !.src = Nil, !.pc = "dial",
                    !.payload = <<>>, !.ret = FALSE, !.outcome = "none",
                    !.att = NoAttempt, !.attempts = 0, !.sleeps = 0,
                    !.waited = 0, !.wrote = 0, !.acked = 0,
                    !.delivered = 0, !.frames = {},
                    !.lockOk = (cl.outcome = "ack"), !.unlocks = @ + 1]
    ELSE [cl EXCEPT !.pc = "done"]

\* the closure has returned ok: the loop ends or sleeps
AfterAttempt(cl, ok) ==
    IF LoopNext(ok) = "return" THEN WaitNext(cl) ELSE [cl EXCEPT !.pc = "sleep"]

DialOk(c) ==
    /\ call[c].pc = "dial"
    /\ \E id \in ConnIds : ~net[id].open
    /\ LET id == FreshConn IN
       /\ net' = [net EXCEPT ![id] = [ClosedConn EXCEPT !.open = TRUE,
                                                        !.owner = c]]
       /\ call' = [call EXCEPT ![c] =
                      [@ EXCEPT !.conn = id, !.pc = "prepare",
                                !.payload = <<>>, !.ret = FALSE,
                                !.att = [NoAttempt EXCEPT !.opened = TRUE],
                                !.attempts = Bump(@)]]
    /\ UNCHANGED <<lc, queueRetryDuration, srv, enc, ctor>>

DialFail(c) ==
    /\ call[c].pc = "dial"
    /\ ~srv.scripted
    /\ ~srv.good
    /\ call' = [call EXCEPT ![c] =
                   AfterAttempt([@ EXCEPT !.ret = FALSE,
                                          !.outcome = "connfail",
                                          !.att = NoAttempt,
                                          !.attempts = Bump(@)], FALSE)]
    /\ UNCHANGED <<lc, queueRetryDuration, net, srv, enc, ctor>>

\* l.query up to the error check of preparePackage
Prepare(c) ==
    /\ call[c].pc = "prepare"
    /\ LET r == preparePackage(call[c].act, call[c].key, call[c].src) IN
       call' = [call EXCEPT ![c] =
                   IF r.err
                   THEN ReturnFromAttempt(@, FALSE, "encfail")
                   ELSE [@ EXCEPT !.payload = r.bytes, !.pc = "write",
                                  !.att.encoded = TRUE]]
    /\ UNCHANGED <<lc, queueRetryDuration, net, srv, enc, ctor>>

\* faulty variant of WriteOk: the write reports success after it sent the frame
\* without its last byte
WriteOkShort(c) ==
    /\ call[c].pc = "write"
    /\ net' = [net EXCEPT ![ConnOf(c)] =
                  [@ EXCEPT !.recv = @ \o SubSeq(call[c].payload, 1,
                                                 Len(call[c].payload) - 1),
                            !.writes = @ + 1]]
    /\ call' = [call EXCEPT ![c] = [@ EXCEPT !.pc = "read",
                                             !.att.written = TRUE,
                                             !.wrote = Count(@)]]
    /\ UNCHANGED <<lc, queueRetryDuration, srv, enc, ctor>>

\* conn.Write(payload) succeeds: the whole frame reaches the server
WriteOk(c) ==
    /\ call[c].pc = "write"
    /\ net' = [net EXCEPT ![ConnOf(c)] =
                  [@ EXCEPT !.recv = @ \o call[c].payload, !.writes = @ + 1]]
    /\ call' = [call EXCEPT ![c] = [@ EXCEPT !.pc = "read",
                                             !.att.written = TRUE,
                                             !.wrote = Count(@)]]
    /\ UNCHANGED <<lc, queueRetryDuration, srv, enc, ctor>>

\* faulty variant of WriteFail: the error of conn.Write is dropped and the
\* closure goes on to read the response
WriteFailIgnored(c) ==
    /\ call[c].pc = "write"
    /\ MayFail
    /\ \E n \in 0..(Len(call[c].payload) - 1) :
          net' = [net EXCEPT ![ConnOf(c)] =
                     [@ EXCEPT !.recv = @ \o SubSeq(call[c].payload, 1, n),
                               !.writes = @ + 1]]
    /\ call' = [call EXCEPT ![c] = [@ EXCEPT !.pc = "read"]]
    /\ srv' = Consumed
    /\ UNCHANGED <<lc, queueRetryDuration, enc, ctor>>

\* conn.Write(payload) fails: some proper prefix of the frame was sent
WriteFail(c) ==
    /\ call[c].pc = "write"
    /\ MayFail
    /\ \E n \in 0..(Len(call[c].payload) - 1) :
          net' = [net EXCEPT ![ConnOf(c)] =
                     [@ EXCEPT !.recv = @ \o SubSeq(call[c].payload, 1, n),
                               !.writes = @ + 1]]
    /\ call' = [call EXCEPT ![c] = ReturnFromAttempt(@, FALSE, "writefail")]
    /\ srv' = Consumed
    /\ UNCHANGED <<lc, queueRetryDuration, enc, ctor>>

\* l.result reads one byte r from the connection
ReadByte(c) ==
    /\ call[c].pc = "read"
    /\ \E r \in srv.resp :
          /\ IF r = Plus THEN MayAck ELSE ~srv.scripted /\ ~srv.good
          /\ call' = [call EXCEPT ![c] =
                         ReturnFromAttempt(
                             [@ EXCEPT !.att.readOk = TRUE, !.att.byte = r,
                                       !.acked = IF r = Plus THEN Count(@)
                                                             ELSE @],
                             result(TRUE, r),
                             IF result(TRUE, r) THEN "ack" ELSE "nack")]
    /\ net' = [net EXCEPT ![ConnOf(c)] = [@ EXCEPT !.reads = @ + 1]]
    /\ UNCHANGED <<lc, queueRetryDuration, srv, enc, ctor>>

\* io.ReadAtLeast fails: the connection was closed or reset before one byte
ReadFail(c) ==
    /\ call[c].pc = "read"
    /\ MayFail
    /\ call' = [call EXCEPT ![c] =
                   ReturnFromAttempt(@, result(FALSE, 0),
                                     IF result(FALSE, 0) THEN "ack"
                                                         ELSE "readfail")]
    /\ srv' = Consumed
    /\ UNCHANGED <<lc, queueRetryDuration, net, enc, ctor>>

\* the server has received the whole frame of the attempt of call c
Whole(c) ==
    /\ call[c].payload # <<>>
    /\ net[call[c].conn].recv = call[c].payload

\* the deferred conn.Close() runs, the closure returns, the loop tests it
Close(c) ==
    /\ call[c].pc = "close"
    /\ net' = [net EXCEPT ![call[c].conn] = ClosedConn]
    /\ call' = [call EXCEPT ![c] =
                   AfterAttempt(
                       IF Whole(c)
                       THEN [@ EXCEPT !.conn = 0, !.delivered = Count(@),
                                      !.frames =
                                          IF srv.scripted
                                          THEN @ \cup {net[call[c].conn].recv}
                                          ELSE @]
                       ELSE [@ EXCEPT !.conn = 0],
                       call[c].ret)]
    /\ UNCHANGED <<lc, queueRetryDuration, srv, enc, ctor>>

\* faulty variant of Sleep: the retry interval backs off, doubling at every sleep
SleepBackoff(c) ==
    /\ call[c].pc = "sleep"
    /\ call' = [call EXCEPT ![c] = [@ EXCEPT !.pc = "dial", !.ret = FALSE,
                                             !.outcome = "none",
                                             !.att = NoAttempt,
                                             !.payload = <<>>,
                                             !.sleeps = Bump(@),
                                             !.waited = Slept(@, call[c].sleeps)]]
    /\ queueRetryDuration' = 2 * queueRetryDuration
    /\ UNCHANGED <<lc, net, srv, enc, ctor>>

\* time.Sleep(queueRetryDuration), then the loop calls the closure again
Sleep(c) ==
    /\ call[c].pc = "sleep"
    /\ call' = [call EXCEPT ![c] = [@ EXCEPT !.pc = "dial", !.ret = FALSE,
                                             !.outcome = "none",
                                             !.att = NoAttempt,
                                             !.payload = <<>>,
                                             !.sleeps = Bump(@),
                                             !.waited = Slept(@, call[c].sleeps)]]
    /\ UNCHANGED <<lc, queueRetryDuration, net, srv, enc, ctor>>

\* the caller has its result; the goroutine is free for another call
Finish(c) ==
    /\ call[c].pc = "done"
    /\ call' = [call EXCEPT ![c] = IdleCall]
    /\ UNCHANGED <<lc, queueRetryDuration, net, srv, enc, ctor>>

\* the server comes up for good, or degrades again
ServerRecover ==
    /\ ~srv.scripted /\ ~srv.good
    /\ srv' = [srv EXCEPT !.good = TRUE]
    /\ UNCHANGED <<lc, queueRetryDuration, call, net, enc, ctor>>

ServerDegrade ==
    /\ ~srv.scripted /\ srv.good
    /\ srv' = [srv EXCEPT !.good = FALSE]
    /\ UNCHANGED <<lc, queueRetryDuration, call, net, enc, ctor>>

\* the harness applies preparePackage to the inputs drawn in InitCodec
Encode ==
    /\ ~enc.done
    /\ enc.action \in Actions
    /\ LET r == preparePackage(enc.action, enc.key, enc.src) IN
       enc' = [enc EXCEPT !.done = TRUE, !.err = r.err, !.bytes = r.bytes]
    /\ UNCHANGED <<lc, queueRetryDuration, call, net, srv, ctor>>

----------------------------------------------------------------------------
(* The constructor *)

\* faulty variant of NewReturn: the client is returned whatever ping returned
NewReturnIgnoringError(ct, e, why) ==
    [ct EXCEPT !.pc = "returned", !.err = e, !.client = TRUE, !.why = why]

\* NewLockingCenter returns (nil, err) or (lc, nil)
NewReturn(ct, e, why) ==
    [ct EXCEPT !.pc = "returned", !.err = e, !.client = ~e, !.why = why]

\* net.ResolveTCPAddr fails
ResolveFail ==
    /\ ctor.pc = "new"
    /\ ctor' = NewReturn(ctor, TRUE, "resolve")
    /\ UNCHANGED <<lc, queueRetryDuration, call, net, srv, enc>>

\* net.ResolveTCPAddr succeeds: lc := &lockingCenter{address: addr}
ResolveOk ==
    /\ ctor.pc = "new"
    /\ lc' = [address |-> "host:port"]
    /\ ctor' = [ctor EXCEPT !.pc = "ping"]
    /\ UNCHANGED <<queueRetryDuration, call, net, srv, enc>>

\* ping: net.DialTCP fails
pingDialFail ==
    /\ ctor.pc = "ping"
    /\ ~srv.good
    /\ ctor' = NewReturn([ctor EXCEPT !.dials = @ + 1], TRUE, "dial")
    /\ UNCHANGED <<lc, queueRetryDuration, call, net, srv, enc>>

\* ping: net.DialTCP succeeds
pingDialOk ==
    /\ ctor.pc = "ping"
    /\ \E id \in ConnIds : ~net[id].open
    /\ LET id == FreshConn IN
       /\ net' = [net EXCEPT ![id] = [ClosedConn EXCEPT !.open = TRUE]]
       /\ ctor' = [ctor EXCEPT !.pc = "pingclose", !.conn = id,
                               !.dials = @ + 1]
    /\ UNCHANGED <<lc, queueRetryDuration, call, srv, enc>>

\* ping: return conn.Close(), whose error, if any, is the constructor's
pingClose ==
    /\ ctor.pc = "pingclose"
    /\ net' = [net EXCEPT ![ctor.conn] = ClosedConn]
    /\ \E e \in BOOLEAN :
          ctor' = NewReturn([ctor EXCEPT !.conn = 0, !.closes = @ + 1], e,
                            IF e THEN "close" ELSE "none")
    /\ UNCHANGED <<lc, queueRetryDuration, call, srv, enc>>

NewLockingCenter ==
    \/ ResolveFail
    \/ ResolveOk
    \/ pingDialFail
    \/ pingDialOk
    \/ pingClose

----------------------------------------------------------------------------
(* Specifications *)

Start(c, K, S) ==
    \E k \in K, s \in S :
        \/ Lock(c, k, s)
        \/ Unlock(c, k)
        \/ Wait(c, k)
        \/ ResetByKey(c, k)
        \/ ResetBySource(c, s)

Attempt(c) ==
    \/ DialOk(c)
    \/ DialFail(c)
    \/ Prepare(c)
    \/ WriteOk(c)
    \/ WriteFail(c)
    \/ ReadByte(c)
    \/ ReadFail(c)
    \/ Close(c)
    \/ Sleep(c)

\* one caller: one call at a time, the server free to fail at any step
Solo == {1}

Next ==
    \E c \in Solo :
        \/ Start(c, SoloKeys, SoloSources)
        \/ Attempt(c)
        \/ Finish(c)

Spec == Init /\ [][Next]_vars

\* concurrent calls on the same client, the server free to fail at any step
NextConc ==
    \E c \in Calls :
        \/ Start(c, EngineKeys, EngineSources)
        \/ Attempt(c)
        \/ Finish(c)

SpecConc == Init /\ [][NextConc]_vars

\* one Lock call with a valid key against a server that accepts every
\* connection, closes the first srv.n of them without answering and answers
\* "+" from then on
ValidLockKeys == {k \in SoloKeys : ~KeyRejected(maLock, k)}

InitRetry ==
    /\ InitClient
    /\ srv \in {[good |-> FALSE, scripted |-> TRUE, n |-> n, left |-> n,
                 resp |-> RespBytes] : n \in 0..MaxN}
    /\ enc = EncIdle

NextRetry ==
    \E c \in Solo :
        \/ \E k \in ValidLockKeys, s \in SoloSources : Lock(c, k, s)
        \/ DialOk(c)
        \/ Prepare(c)
        \/ WriteOk(c)
        \/ WriteFail(c)
        \/ ReadByte(c)
        \/ ReadFail(c)
        \/ Close(c)
        \/ Sleep(c)

SpecRetry == InitRetry /\ [][NextRetry]_vars

\* one caller under fair scheduling of its goroutine, the server failing and
\* recovering at will
NextLive ==
    \/ \E c \in Solo :
          \/ Start(c, SoloKeys, SoloSources)
          \/ Attempt(c)
          \/ Finish(c)
    \/ ServerRecover
    \/ ServerDegrade

SpecLive == Init /\ [][NextLive]_vars /\ \A c \in Solo : WF_vars(Attempt(c))

\* one caller against a server that may answer any byte
InitAck ==
    /\ InitClient
    /\ srv = [FreeServer EXCEPT !.resp = AllBytes]
    /\ enc = EncIdle

SpecAck == InitAck /\ [][Next]_vars

\* the program from the call of the constructor on: NewLockingCenter, then
\* the calls of one caller on the client it returned
InitNew ==
    /\ lc = NoClient
    /\ queueRetryDuration = DefaultRetryMs
    /\ call = [c \in Calls |-> IdleCall]
    /\ net = [id \in ConnIds |-> ClosedConn]
    /\ srv = FreeServer
    /\ enc = EncIdle
    /\ ctor = CtorNew

NextNew ==
    \/ NewLockingCenter
    \/ Next

SpecNew == InitNew /\ [][NextNew]_vars

\* the encoder alone, on inputs around every length bound
InitCodec ==
    /\ InitClient
    /\ srv = FreeServer
    /\ enc \in {[EncIdle EXCEPT !.action = a, !.key = k, !.src = s] :
                   a \in Actions, k \in CodecKeys, s \in CodecSources}

NextCodec == Encode

SpecCodec == InitCodec /\ [][NextCodec]_vars

----------------------------------------------------------------------------
(* Properties *)

InAttempt(cl) == cl.pc \in {"prepare", "write", "read", "close"}

\* the key of the call does not pass the validation of its action
BadKey(cl) == KeyRejected(cl.act, cl.key)

\* C1: a call with an invalid key (empty or longer than 128 bytes) ends with
\* the encoding failure: after the attempt in which encoding failed it does
\* not sleep (and so starts no further attempt).
C1_EncodingFailureNotRetried ==
    \A c \in Calls : call[c].outcome = "encfail" => call[c].pc # "sleep"

\* C2: a call returns (Lock inside Wait included) only directly after an
\* attempt that opened the connection, wrote the frame and read "+"; after an
\* attempt that ended in a connect, write or read failure or in another byte
\* the call does not return: its next step is the sleep, then a new attempt.
C2Failed(cl) == cl.outcome \in {"connfail", "writefail", "readfail", "nack"}

C2Acked(cl) ==
    /\ cl.pc = "close"
    /\ cl.att.opened /\ cl.att.encoded /\ cl.att.written /\ cl.att.readOk
    /\ cl.att.byte = Plus

C2Returns(c) ==
    /\ call[c].pc \notin {"idle", "done"}
    /\ \/ call'[c].pc = "done"
       \/ call[c].act = maLock /\ call'[c].act = maUnlock

C2Step(c) ==
    /\ C2Returns(c) => C2Acked(call[c])
    /\ C2Failed(call[c]) =>
          /\ call[c].pc \in {"close", "sleep"}
          /\ call[c].pc = "close" => call'[c].pc \in {"close", "sleep"}
          /\ call[c].pc = "sleep" => call'[c].pc \in {"sleep", "dial"}

C2_ReturnOnlyAfterAck == [][\A c \in Calls : C2Step(c)]_vars

C2_Witness ==
    \E c \in Calls :
        /\ call[c].pc = "done" /\ call[c].outcome = "ack"
        /\ call[c].sleeps >= 1

\* C3: against a server that closes the first N connections and answers "+"
\* on connection N+1, Lock makes exactly N+1 attempts and N sleeps of the
\* retry interval: no sleep before the first attempt, one after every failed
\* attempt, none after the successful one, and it returns after attempt N+1.
C3_ExactRetries ==
    \A c \in Solo :
        LET cl == call[c] IN
        /\ cl.pc = "idle" => cl.attempts = 0 /\ cl.sleeps = 0
        /\ cl.pc = "dial" => cl.sleeps = cl.attempts
        /\ InAttempt(cl) \/ cl.pc = "sleep" => cl.attempts = cl.sleeps + 1
        /\ cl.pc = "sleep" => cl.attempts = srv.n - srv.left
        /\ cl.attempts <= srv.n + 1
        /\ cl.waited = cl.sleeps * DefaultRetryMs
        /\ cl.pc = "done" =>
              /\ cl.attempts = srv.n + 1
              /\ cl.sleeps = srv.n
              /\ cl.outcome = "ack"
              /\ srv.left = 0

C3_Witness ==
    \E c \in Solo :
        /\ call[c].pc = "done" /\ srv.n = MaxN
        /\ call[c].attempts = MaxN + 1 /\ call[c].sleeps = MaxN

\* C4: if from some point on the server accepts every connection and answers
\* "+" to every request, every started call with a valid key returns.
C4_EventuallyReturns ==
    (<>[](srv.good)) =>
        \A c \in Solo :
            (call[c].pc \notin {"idle", "done"} /\ ~BadKey(call[c]))
                ~> (call[c].pc = "done")

C4_Witness ==
    \E c \in Solo :
        /\ srv.good /\ call[c].pc = "done" /\ call[c].sleeps >= 1

\* C5: in Wait no Unlock is started, and no Unlock frame sent, before the
\* Lock was acknowledged with "+"; after that exactly one Unlock call runs,
\* and Wait returns only when that Unlock was acknowledged.
C5_WaitUnlocksOnce ==
    \A c \in Calls :
        LET cl == call[c] IN
        cl.op = "Wait" =>
            /\ cl.act \in {maLock, maUnlock}
            /\ cl.act = maLock => ~cl.lockOk /\ cl.unlocks = 0 /\ cl.pc # "done"
            /\ cl.act = maUnlock => cl.lockOk /\ cl.unlocks = 1
            /\ (cl.conn # 0 /\ net[cl.conn].recv # <<>>
                    /\ net[cl.conn].recv[1] = maUnlock) => cl.lockOk
            /\ cl.pc = "done" =>
                  cl.lockOk /\ cl.unlocks = 1 /\ cl.outcome = "ack"

C5_Witness ==
    \E c \in Calls :
        /\ call[c].op = "Wait" /\ call[c].pc = "done"
        /\ call[c].unlocks = 1 /\ call[c].sleeps >= 1

\* C6: a connection is held by the one attempt that opened it and is closed
\* before the call sleeps, retries or returns, on every exit path: a call
\* inside an attempt holds exactly one open connection, a call that is idle,
\* about to dial, sleeping or done holds none, every open connection is held
\* by exactly one call, and no connection carries more than one write and
\* one read.
C6_ConnectionOwnership ==
    /\ \A c \in Calls :
          LET cl == call[c]
              mine == {id \in ConnIds : net[id].open /\ net[id].owner = c}
          IN  /\ InAttempt(cl) =>
                    cl.conn \in ConnIds /\ mine = {cl.conn}
              /\ ~InAttempt(cl) => cl.conn = 0 /\ mine = {}
    /\ \A id \in ConnIds :
          /\ net[id].open =>
                net[id].owner \in Calls /\ call[net[id].owner].conn = id
          /\ net[id].writes <= 1 /\ net[id].reads <= 1
    /\ \A c, d \in Calls :
          c # d /\ call[c].conn # 0 => call[c].conn # call[d].conn

C6_Witness ==
    \E c, d \in Calls :
        /\ c # d
        /\ call[c].pc = "close" /\ call[c].outcome = "encfail"
        /\ call[c].conn # 0 /\ call[d].conn # 0
        /\ call[d].pc = "close" /\ call[d].outcome = "ack"

\* C7: with concurrent calls, the bytes a connection has received are bytes
\* of the frame of the call that opened it, in order, and are that complete
\* frame once its write succeeded (a failed write leaves a prefix of it); the
\* byte a call reads is read from its own connection; and a step of one call
\* changes neither the state of another call nor a connection of another.
Frame(cl) == preparePackage(cl.act, cl.key, cl.src).bytes

IsPrefix(s, t) == Len(s) <= Len(t) /\ SubSeq(t, 1, Len(s)) = s

C7Framing ==
    \A id \in ConnIds :
        net[id].open =>
            LET cl == call[net[id].owner] IN
            /\ IsPrefix(net[id].recv, Frame(cl))
            /\ cl.pc \in {"prepare", "write"} => net[id].recv = <<>>
            /\ cl.att.written =>
                  net[id].recv = Frame(cl) /\ net[id].recv # <<>>
            /\ net[id].reads = IF cl.att.readOk THEN 1 ELSE 0

C7Step ==
    \A c, d \in Calls :
        (c # d /\ call'[c] # call[c]) =>
            /\ call'[d] = call[d]
            /\ \A id \in ConnIds : net[id].owner = d => net'[id] = net[id]

C7_NoInterference == []C7Framing /\ [][C7Step]_vars

C7_Witness ==
    /\ call[1].op = "Lock" /\ call[1].key = <<97>>
    /\ call[2].op = "Lock" /\ call[2].key = <<98>>
    /\ call[1].pc = "read" /\ call[2].pc = "read"
    /\ call[1].conn # call[2].conn
    /\ net[call[1].conn].recv # net[call[2].conn].recv

\* C8: for every input that passes validation the frame is the action code,
\* then for Lock, Unlock and ResetByKey the key-length byte and the key, then
\* for Lock and ResetBySource the source-length byte and the source bytes;
\* its length is 1 + (1 + len(key)) + (1 + len(src)) over the fields present.
\* The length bytes are read as unsigned bytes, the source up to 255 bytes.
C8Bytes(s) == IF s.present THEN s.val ELSE <<>>

C8Expected(a, k, s) ==
    CASE a = 1 -> <<1, Len(k) % 256>> \o k
                      \o <<Len(C8Bytes(s)) % 256>> \o C8Bytes(s)
      [] a = 2 -> <<2, Len(k) % 256>> \o k
      [] a = 3 -> <<3, Len(k) % 256>> \o k
      [] a = 4 -> <<4, Len(C8Bytes(s)) % 256>> \o C8Bytes(s)

C8_FrameLayout ==
    (enc.done /\ ~enc.err) =>
        LET keyed == enc.action \in {1, 2, 3}
            sourced == enc.action \in {1, 4}
            nk == IF keyed THEN 1 + Len(enc.key) ELSE 0
            ns == IF sourced THEN 1 + Len(C8Bytes(enc.src)) ELSE 0
        IN  /\ enc.bytes = C8Expected(enc.action, enc.key, enc.src)
            /\ enc.bytes[1] = enc.action
            /\ Len(enc.bytes) = 1 + nk + ns
            /\ keyed => enc.bytes[2] = Len(enc.key)
            /\ (sourced /\ Len(C8Bytes(enc.src)) <= 255) =>
                  /\ enc.bytes[1 + nk + 1] = Len(C8Bytes(enc.src))
                  /\ (enc.bytes[1 + nk + 1] > 0) <=> (Len(enc.bytes) > 1 + nk + 1)

C8_Witness ==
    /\ enc.done /\ ~enc.err /\ enc.action = maLock
    /\ Len(enc.key) = MaxKeyLen
    /\ enc.src.present /\ Len(enc.src.val) = 255

\* C9: in a call of Lock, Unlock or ResetByKey whose key is empty or longer
\* than 128 bytes every encoding fails and yields no bytes: nothing is
\* written to the connection and nothing is read from it; with a key of 1 to
\* 128 bytes the encoding never fails.
C9_InvalidKeyNothingSent ==
    \A c \in Calls :
        LET cl == call[c]
            keyed == cl.act \in {1, 2, 3}
        IN  /\ (keyed /\ (Len(cl.key) = 0 \/ Len(cl.key) > 128)) =>
                  /\ cl.payload = <<>>
                  /\ ~cl.att.encoded /\ ~cl.att.written /\ ~cl.att.readOk
                  /\ cl.pc \notin {"write", "read", "done"}
                  /\ cl.pc = "close" => cl.outcome = "encfail"
                  /\ cl.conn # 0 =>
                        /\ net[cl.conn].recv = <<>>
                        /\ net[cl.conn].writes = 0
                        /\ net[cl.conn].reads = 0
            /\ (keyed /\ Len(cl.key) >= 1 /\ Len(cl.key) <= 128) =>
                  /\ cl.outcome # "encfail"
                  /\ cl.pc \in {"write", "read"} =>
                        cl.att.encoded /\ cl.payload # <<>>

C9_Witness ==
    \E c \in Calls :
        /\ call[c].pc = "close" /\ call[c].outcome = "encfail"
        /\ Len(call[c].key) > MaxKeyLen /\ call[c].conn # 0

\* a received byte read back as a signed 8-bit integer
AsInt8(b) == IF b >= 128 THEN b - 256 ELSE b

\* C10: for every key that passes validation (1 to 128 bytes) the key-length
\* field, read as a signed 8-bit integer, is not negative and equals the
\* number of key bytes that follow it.
C10_KeyLenNonNegative ==
    (enc.done /\ ~enc.err /\ enc.action \in {1, 2, 3}) =>
        /\ AsInt8(enc.bytes[2]) >= 0
        /\ AsInt8(enc.bytes[2]) = Len(enc.key)

\* a reader of the frame layout: action byte, int8 key length, key bytes,
\* int8 source length, source bytes; a source length of 0 is an absent source
Decode(frame) ==
    LET bad == [ok |-> FALSE, action |-> 0, key |-> <<>>, present |-> FALSE]
    IN  IF Len(frame) < 2 THEN bad
        ELSE LET kl == AsInt8(frame[2]) IN
             IF kl < 0 \/ Len(frame) < 3 + kl THEN bad
             ELSE LET sl == AsInt8(frame[3 + kl]) IN
                  IF sl < 0 \/ Len(frame) # 3 + kl + sl THEN bad
                  ELSE [ok |-> TRUE, action |-> frame[1],
                        key |-> SubSeq(frame, 3, 2 + kl),
                        present |-> sl > 0]

\* C11: for a key of 1 to 128 bytes the frame of (Lock, key, no source),
\* decoded by the frame layout, gives back Lock, the same key and no source.
C11_RoundTrip ==
    (enc.done /\ enc.action = 1 /\ ~enc.src.present
         /\ Len(enc.key) >= 1 /\ Len(enc.key) <= 128) =>
        /\ ~enc.err
        /\ Decode(enc.bytes) = [ok |-> TRUE, action |-> 1, key |-> enc.key,
                                present |-> FALSE]

\* the frame of an action with a source field, up to its source-length byte
C15Head(action, key) ==
    IF action = maLock THEN <<maLock, Len(key) % 256>> \o key ELSE <<action>>

\* C15: for Lock and ResetBySource a nil source and a present, empty source
\* give the same frame: the source-length byte is 0 and nothing follows it.
C15_NilAndEmptySourceAlike ==
    (enc.done /\ ~enc.err /\ enc.action \in {maLock, maResetBySource}
         /\ enc.src \in {Nil, Ptr(<<>>)}) =>
        /\ enc.bytes = C15Head(enc.action, enc.key) \o <<0>>
        /\ preparePackage(enc.action, enc.key, Nil).bytes = enc.bytes
        /\ preparePackage(enc.action, enc.key, Ptr(<<>>)).bytes = enc.bytes

C15_Witness ==
    /\ enc.done /\ ~enc.err /\ enc.action = maLock
    /\ enc.src = Ptr(<<>>) /\ enc.key = <<97, 97>>
    /\ enc.bytes = <<1, 2, 97, 97, 0>>

\* the position of the source-length byte in the frame of Lock or ResetBySource
C19SizeAt(action, key) == IF action = maLock THEN 3 + Len(key) ELSE 2

\* C19: for Lock and ResetBySource the source never makes the encoding fail;
\* the source-length byte is the length modulo 256 (negative as int8 for
\* lengths 128 to 255) and every source byte is appended, so the length byte
\* counts the bytes after it only up to 127 (int8) or 255 (unsigned byte).
C19_SourceLengthNotValidated ==
    (enc.done /\ enc.action \in {maLock, maResetBySource}) =>
        /\ enc.err <=> ((enc.action = maLock /\ Len(enc.key) = 0)
                            \/ Len(enc.key) > 128)
        /\ (~enc.err /\ enc.src.present) =>
             LET at    == C19SizeAt(enc.action, enc.key)
                 n     == Len(enc.src.val)
                 size  == enc.bytes[at]
                 after == SubSeq(enc.bytes, at + 1, Len(enc.bytes))
             IN  /\ Len(enc.bytes) >= at
                 /\ size = n % 256
                 /\ (n >= 128 /\ n <= 255) => AsInt8(size) < 0
                 /\ after = enc.src.val
                 /\ (size = Len(after)) <=> (n <= 255)
                 /\ (AsInt8(size) = Len(after)) <=> (n <= 127)

C19_Witness ==
    /\ enc.done /\ ~enc.err /\ enc.action = maResetBySource
    /\ enc.src.present /\ Len(enc.src.val) = 256
    /\ enc.bytes[2] = 0 /\ Len(enc.bytes) = 258

\* C12: the attempt's result is true if and only if one byte was read and it
\* is "+" (0x2B); any other byte, and a read that fails before a byte
\* arrives, give false; the loop ends exactly after an attempt whose result
\* is true.
C12_AckIffPlus ==
    \A c \in Solo :
        LET cl == call[c]
            plus == cl.att.readOk /\ cl.att.byte = 43
        IN  /\ cl.pc = "close" =>
                  /\ cl.ret <=> plus
                  /\ (cl.outcome = "ack") <=> cl.ret
                  /\ cl.att.readOk => net[cl.conn].reads = 1
                  /\ ~cl.att.readOk => net[cl.conn].reads = 0
            /\ cl.pc = "sleep" => ~plus
            /\ cl.pc = "done" => plus

C12_Witness ==
    \E c \in Solo :
        /\ call[c].pc = "sleep" /\ call[c].outcome = "nack"
        /\ call[c].att.readOk /\ call[c].att.byte = 44

\* C13: a ResetBySource call has the empty key and never fails the key
\* validation, whether its source is nil, empty or not: every attempt of it
\* that connected encodes and writes a frame that begins with action code 4.
C13_ResetBySourceAlwaysEncodes ==
    \A c \in Solo :
        LET cl == call[c] IN
        cl.op = "ResetBySource" =>
            /\ cl.key = <<>> /\ cl.act = 4
            /\ cl.outcome # "encfail"
            /\ cl.pc \in {"write", "read", "close"} =>
                   /\ cl.att.encoded
                   /\ Len(cl.payload) >= 2 /\ cl.payload[1] = 4
                   /\ IsPrefix(net[cl.conn].recv, cl.payload)
            /\ (InAttempt(cl) /\ cl.att.written) =>
                   /\ net[cl.conn].recv = cl.payload
                   /\ net[cl.conn].recv[1] = 4

C13_Witness ==
    \E c \in Solo :
        /\ call[c].op = "ResetBySource" /\ call[c].src = Ptr(<<>>)
        /\ call[c].pc = "read"
        /\ net[call[c].conn].recv = <<4, 0>>

\* C14: the constructor dials once, closes that connection at once and
\* writes and reads nothing on it; after a failed resolution or a failed dial
\* it returns the error and no client without another dial; when it returns
\* the client no connection is left open; once returned it does nothing more.
C14Ping ==
    /\ ctor.dials <= 1 /\ ctor.closes <= ctor.dials
    /\ \A id \in ConnIds :
           (net[id].open /\ net[id].owner = 0) =>
               /\ ctor.pc = "pingclose" /\ ctor.conn = id
               /\ net[id].writes = 0 /\ net[id].reads = 0
               /\ net[id].recv = <<>>
    /\ ctor.pc = "pingclose" => net[ctor.conn].open
    /\ ctor.pc = "returned" =>
           /\ ctor.why \in {"resolve", "dial"} => ctor.err /\ ~ctor.client
           /\ ctor.why = "resolve" => ctor.dials = 0
           /\ ctor.client <=> ~ctor.err
           /\ ctor.client => ctor.dials = 1 /\ ctor.closes = 1
           /\ ctor.closes = ctor.dials \/ ctor.why = "dial"
    /\ ~ctor.client => \A c \in Calls : call[c].pc = "idle"

C14Step ==
    /\ ctor.pc = "returned" => ctor' = ctor
    /\ ctor.pc = "pingclose" => ctor'.pc \in {"pingclose", "returned"}
    /\ (ctor.pc = "ping" /\ ctor'.err) => ctor'.pc = "returned"

C14_ConstructorPingsOnce == []C14Ping /\ [][C14Step]_vars

C14_Witness ==
    /\ ctor.pc = "returned" /\ ctor.why = "dial" /\ ctor.err
    /\ ctor.dials = 1 /\ ctor.closes = 0
    /\ \A id \in ConnIds : ~net[id].open

\* C16: no step of any operation changes the client: the address and the
\* retry interval stay as they are, and the client struct has no field but
\* the address (no record of the keys locked).
C16Step ==
    /\ lc' = lc
    /\ queueRetryDuration' = queueRetryDuration
    /\ DOMAIN lc' = {"address"}

C16_ClientStateUnchanged == [][C16Step]_vars

C16_Witness ==
    /\ \E c \in Calls : call[c].pc = "done" /\ call[c].op = "Lock"
    /\ \E c \in Calls : call[c].pc = "sleep" /\ call[c].sleeps >= 1
    /\ lc = [address |-> "host:port"]
    /\ queueRetryDuration = 500

\* C17: in every attempt the steps come in the order connect, encode, write,
\* read, close: nothing is encoded or written before the connection is open,
\* a byte is read only after the write succeeded, and a connection carries at
\* most one write and one read.  After a failed connect nothing was encoded
\* or written, the call has not returned, and it sleeps and dials again.
C17Order ==
    \A c \in Solo :
        LET cl == call[c] IN
        /\ cl.att.encoded => cl.att.opened
        /\ cl.att.written => cl.att.encoded
        /\ cl.att.readOk => cl.att.written
        /\ cl.payload # <<>> => cl.att.encoded
        /\ InAttempt(cl) =>
               /\ cl.att.opened /\ net[cl.conn].open
               /\ net[cl.conn].writes <= 1 /\ net[cl.conn].reads <= 1
               /\ net[cl.conn].writes = 1 => cl.att.encoded
               /\ net[cl.conn].reads = 1 =>
                      cl.att.written /\ net[cl.conn].recv = cl.payload
               /\ cl.pc = "read" => cl.att.written
        /\ cl.outcome = "connfail" =>
               /\ cl.pc = "sleep"
               /\ cl.att = NoAttempt /\ cl.payload = <<>>
               /\ \A id \in ConnIds : ~net[id].open

C17Step ==
    \A c \in Solo :
        /\ (call[c].pc = "dial" /\ call'[c].pc # "dial") =>
               \/ call'[c].pc = "prepare"
               \/ call'[c].pc = "sleep" /\ call'[c].outcome = "connfail"
        /\ (call[c].pc = "prepare" /\ call'[c].pc # "prepare") =>
               call'[c].pc \in {"write", "close"}
        /\ (call[c].pc = "write" /\ call'[c].pc # "write") =>
               call'[c].pc \in {"read", "close"}
        /\ (call[c].pc = "read" /\ call'[c].pc # "read") =>
               call'[c].pc = "close"
        /\ (call[c].pc = "sleep" /\ call'[c].pc # "sleep") =>
               call'[c].pc = "dial"

C17_AttemptOrder == []C17Order /\ [][C17Step]_vars

C17_Witness ==
    \E c \in Solo :
        /\ call[c].pc = "sleep" /\ call[c].outcome = "connfail"
        /\ call[c].op = "Unlock" /\ call[c].attempts >= 1

\* C18: a call delivers as many whole frames as it has attempts whose write
\* succeeded, which can be more than one: after a read that failed the same
\* frame goes out again, so a Lock call that returned may have delivered its
\* frame several times while exactly one "+" reached it.
C18_RetriesResend ==
    \A c \in Solo :
        LET cl == call[c] IN
        /\ IF InAttempt(cl) /\ cl.att.written
           THEN cl.wrote = cl.delivered + 1
           ELSE cl.wrote = cl.delivered
        /\ cl.frames \subseteq {Frame(cl)}
        /\ cl.delivered >= 1 => cl.frames = {Frame(cl)}
        /\ cl.pc = "done" =>
               /\ cl.acked = 1
               /\ cl.wrote >= 1
               /\ cl.wrote <= srv.n + 1

C18_Witness ==
    \E c \in Solo :
        /\ call[c].pc = "done" /\ call[c].op = "Lock"
        /\ call[c].delivered >= 2 /\ call[c].acked = 1

====
